---- MODULE Spec2Model ----
(***************************************************************************)
(* Model of src/main.py: the Selro orders proxy.                           *)
(*                                                                         *)
(*   clean_json        the recursive pruning of null / {} / []             *)
(*   verify_api_key    the bearer-token check of the Authorization header  *)
(*   fetch_all_orders  the pagination loop of SelroClient                  *)
(*   get_unshipped_orders  the GET /api/orders/unshipped handler           *)
(*                                                                         *)
(* JSON values are tagged records:                                         *)
(*   [t |-> "null"]                    None                                *)
(*   [t |-> "scalar", v |-> n]         a number, string or boolean         *)
(*   [t |-> "map",  m |-> f]           a dict, f a function on its keys    *)
(*   [t |-> "list", items |-> s]       a list, s a sequence                *)
(* Strings of the authentication path are TLA+ strings, which TLC treats   *)
(* as sequences of characters (Len, SubSeq, \o).                           *)
(***************************************************************************)
EXTENDS Integers, Sequences, FiniteSets, TLC

VARIABLES
  API_AUTH_TOKEN,   \* main.py:18, read once at start
  selro_client,     \* main.py:143, the shared client: [key, secret, base_url]
  caller,           \* per request: "endpoint" (HTTP request) or "direct" (a call of fetch_all_orders)
  authorization,    \* per request: <<>> when the header is absent, else <<h>>
  pc,               \* per request: "new", "fetch", "done"
  max_pages,        \* per request: the max_pages argument of fetch_all_orders
  page,             \* per request: local `page`
  all_orders,       \* per request: local `all_orders`, a sequence of JSON values
  has_more_orders,  \* per request: local `has_more_orders`
  trace,            \* per request: the upstream calls and delays performed, in order
  result,           \* per request: what fetch_all_orders returned or raised
  response,         \* per request: the HTTP response of the endpoint
  data,             \* clean_json harness: the argument
  cleaned,          \* clean_json harness: <<>> or <<clean_json(data)>>
  recleaned,        \* clean_json harness: <<>> or <<clean_json(clean_json(data))>>
  header,           \* verify_api_key harness: the Authorization header value
  verdict           \* verify_api_key harness: <<>> or <<outcome of verify_api_key(header)>>

vars == <<API_AUTH_TOKEN, selro_client, caller, authorization, pc, max_pages, page,
          all_orders, has_more_orders, trace, result, response,
          data, cleaned, recleaned, header, verdict>>

reqVars == <<API_AUTH_TOKEN, selro_client, caller, authorization, pc, max_pages, page,
             all_orders, has_more_orders, trace, result, response>>
cleanVars == <<data, cleaned, recleaned>>
authVars == <<header, verdict>>

----------------------------------------------------------------------------
(* Bounds of the model *)

\* JSON values given to clean_json have at most this many nodes.
MaxNodes == 4

\* Authorization header values are made of at most this many pieces.
MaxChunks == 3

\* A direct call of fetch_all_orders passes max_pages in 0..MaxPagesArg.
MaxPagesArg == 3

\* Only the first HolePages pages may hold records that clean_json drops.
HolePages == 2

\* The upstream holds at most this many full pages of orders.
MaxFullPages == 3

\* Requests in flight in the concurrent specification, and their max_pages.
NumRequests == 2
MaxPagesConc == 2

----------------------------------------------------------------------------
(* JSON values *)

Null == [t |-> "null"]
Scalar(n) == [t |-> "scalar", v |-> n]
Map(f) == [t |-> "map", m |-> f]
List(s) == [t |-> "list", items |-> s]

EmptyMap == Map(<<>>)
EmptyList == List(<<>>)

\* `x is None`, `x == {}`, `x == []` of Python
IsNone(x) == x.t = "null"
IsEmptyDict(x) == x.t = "map" /\ DOMAIN x.m = {}
IsEmptyList(x) == x.t = "list" /\ Len(x.items) = 0

----------------------------------------------------------------------------
(* clean_json, main.py:45-71 *)

\* A plausible slip: the emptiness test reads the raw value, not the cleaned one.
RECURSIVE clean_json_raw_test(_)
clean_json_raw_test(d) ==
  IF d.t = "map" THEN
    LET keep == {k \in DOMAIN d.m :
                   ~IsNone(d.m[k]) /\ ~IsEmptyDict(d.m[k]) /\ ~IsEmptyList(d.m[k])}
    IN  Map([k \in keep |-> clean_json_raw_test(d.m[k])])
  ELSE IF d.t = "list" THEN
    LET kept == SelectSeq(d.items,
                  LAMBDA x : ~IsNone(x) /\ ~IsEmptyDict(x) /\ ~IsEmptyList(x))
    IN  List([i \in 1..Len(kept) |-> clean_json_raw_test(kept[i])])
  ELSE d

\* A plausible slip: the second filter of the list branch forgets `item != []`.
RECURSIVE clean_json_keeps_empty_lists(_)
clean_json_keeps_empty_lists(d) ==
  IF d.t = "map" THEN
    LET cleaned_value == [k \in DOMAIN d.m |-> clean_json_keeps_empty_lists(d.m[k])]
        keep == {k \in DOMAIN d.m :
                   /\ ~IsNone(cleaned_value[k])
                   /\ ~IsEmptyDict(cleaned_value[k])
                   /\ ~IsEmptyList(cleaned_value[k])}
    IN  Map([k \in keep |-> cleaned_value[k]])
  ELSE IF d.t = "list" THEN
    LET not_none == SelectSeq(d.items, LAMBDA x : ~IsNone(x))
        cleaned_list == [i \in 1..Len(not_none) |-> clean_json_keeps_empty_lists(not_none[i])]
    IN  List(SelectSeq(cleaned_list, LAMBDA x : ~IsEmptyDict(x)))
  ELSE d

RECURSIVE clean_json(_)
clean_json(d) ==
  IF d.t = "map" THEN
    \* for key, value in data.items(): cleaned_value = clean_json(value)
    LET cleaned_value == [k \in DOMAIN d.m |-> clean_json(d.m[k])]
        keep == {k \in DOMAIN d.m :
                   /\ ~IsNone(cleaned_value[k])
                   /\ ~IsEmptyDict(cleaned_value[k])
                   /\ ~IsEmptyList(cleaned_value[k])}
    IN  Map([k \in keep |-> cleaned_value[k]])
  ELSE IF d.t = "list" THEN
    \* [clean_json(item) for item in data if item is not None]
    LET not_none == SelectSeq(d.items, LAMBDA x : ~IsNone(x))
        cleaned_list == [i \in 1..Len(not_none) |-> clean_json(not_none[i])]
    \* [item for item in cleaned_list if item != {} and item != []]
    IN  List(SelectSeq(cleaned_list, LAMBDA x : ~IsEmptyDict(x) /\ ~IsEmptyList(x)))
  ELSE d

----------------------------------------------------------------------------
(* The JSON values clean_json is checked on: every value of at most        *)
(* MaxNodes nodes over two keys and two scalars.                           *)

KeyOrder == <<"a", "b">>
Keys == {KeyOrder[i] : i \in 1..Len(KeyOrder)}
\* the position of key k among the keys of S, in KeyOrder
Rank(k, S) ==
  LET idx == CHOOSE i \in 1..Len(KeyOrder) : KeyOrder[i] = k
  IN  Cardinality({i \in 1..idx : KeyOrder[i] \in S})

RECURSIVE ValuesOfSize(_), SeqsOfSize(_)
\* the sequences of JSON values whose sizes add up to n
SeqsOfSize(n) ==
  IF n = 0 THEN {<<>>}
  ELSE UNION {{<<v>> \o s : v \in ValuesOfSize(k), s \in SeqsOfSize(n - k)} : k \in 1..n}
\* the JSON values of exactly n nodes
ValuesOfSize(n) ==
  IF n = 1 THEN {Null, Scalar(0), Scalar(1), EmptyMap, EmptyList}
  ELSE LET children == SeqsOfSize(n - 1)
           lists == {List(s) : s \in children}
           maps == UNION {{Map([k \in S |-> s[Rank(k, S)]]) :
                              S \in {T \in SUBSET Keys : Cardinality(T) = Len(s)}} :
                           s \in {c \in children : Len(c) <= Cardinality(Keys)}}
       IN  lists \cup maps

JsonValues == UNION {ValuesOfSize(n) : n \in 1..MaxNodes}

----------------------------------------------------------------------------
(* Harness of clean_json: pick a value, clean it, clean the result again.  *)

NoRequests == <<>>

InitClean ==
  /\ data \in JsonValues
  /\ cleaned = <<>>
  /\ recleaned = <<>>
  /\ header = ""
  /\ verdict = <<>>
  /\ API_AUTH_TOKEN = ""
  /\ selro_client = [key |-> "key", secret |-> "secret", base_url |-> "https://api.selro.com/8/orders"]
  /\ caller = NoRequests /\ authorization = NoRequests /\ pc = NoRequests
  /\ max_pages = NoRequests /\ page = NoRequests /\ all_orders = NoRequests
  /\ has_more_orders = NoRequests /\ trace = NoRequests
  /\ result = NoRequests /\ response = NoRequests

CleanOnce ==
  /\ cleaned = <<>>
  /\ cleaned' = <<clean_json(data)>>
  /\ UNCHANGED <<data, recleaned, reqVars, authVars>>

CleanAgain ==
  /\ cleaned # <<>>
  /\ recleaned = <<>>
  /\ recleaned' = <<clean_json(cleaned[1])>>
  /\ UNCHANGED <<data, cleaned, reqVars, authVars>>

NextClean == CleanOnce \/ CleanAgain

SpecClean == InitClean /\ [][NextClean]_vars

\* C7: clean_json is idempotent: cleaning the cleaned value again gives the
\* cleaned value, for every JSON-like value.
C7_Idempotent ==
  recleaned # <<>> => recleaned[1] = cleaned[1]

\* a nested value that cleaning changed has been cleaned twice
C7_Witness ==
  /\ recleaned # <<>>
  /\ cleaned[1] # data
  /\ data.t = "map"
  /\ \E k \in DOMAIN data.m : data.m[k].t \in {"map", "list"} /\ ~IsEmptyDict(data.m[k]) /\ ~IsEmptyList(data.m[k])
  /\ ~IsEmptyDict(cleaned[1])

\* v is null, {} or []
IsPruned(v) == IsNone(v) \/ IsEmptyDict(v) \/ IsEmptyList(v)

\* no mapping value and no sequence element inside v, at any depth, is null, {} or []
RECURSIVE NothingPrunedInside(_)
NothingPrunedInside(v) ==
  IF v.t = "map" THEN
    \A k \in DOMAIN v.m : ~IsPruned(v.m[k]) /\ NothingPrunedInside(v.m[k])
  ELSE IF v.t = "list" THEN
    \A i \in 1..Len(v.items) : ~IsPruned(v.items[i]) /\ NothingPrunedInside(v.items[i])
  ELSE TRUE

\* v is made only of nested empty or null values
RECURSIVE Hollow(_)
Hollow(v) ==
  IF v.t = "map" THEN \A k \in DOMAIN v.m : Hollow(v.m[k])
  ELSE IF v.t = "list" THEN \A i \in 1..Len(v.items) : Hollow(v.items[i])
  ELSE IsNone(v)

\* C8: nothing inside clean_json(v) is null, {} or [], at any depth, and a
\* mapping or sequence made only of nested empty or null values collapses to
\* an empty mapping or an empty sequence.
C8_NothingEmptyInside ==
  cleaned # <<>> =>
    /\ NothingPrunedInside(cleaned[1])
    /\ (data.t = "map" /\ Hollow(data)) => cleaned[1] = EmptyMap
    /\ (data.t = "list" /\ Hollow(data)) => cleaned[1] = EmptyList

\* a mapping holding only a nested hollow container has collapsed to {}
C8_Witness ==
  /\ cleaned # <<>>
  /\ data.t = "map" /\ Hollow(data)
  /\ \E k \in DOMAIN data.m : data.m[k].t = "list" /\ Len(data.m[k].items) > 0
  /\ cleaned[1] = EmptyMap

----------------------------------------------------------------------------
(* verify_api_key, main.py:75-87 *)

\* str.startswith
startswith(s, prefix) ==
  Len(s) >= Len(prefix) /\ SubSeq(s, 1, Len(prefix)) = prefix

\* str.replace(old, new): every non-overlapping occurrence of old, left to right
RECURSIVE replace(_, _, _)
replace(s, old, new) ==
  IF Len(s) < Len(old) THEN s
  ELSE IF SubSeq(s, 1, Len(old)) = old
       THEN new \o replace(SubSeq(s, Len(old) + 1, Len(s)), old, new)
       ELSE SubSeq(s, 1, 1) \o replace(SubSeq(s, 2, Len(s)), old, new)

HTTP_401_UNAUTHORIZED == 401

\* the value returned, or the HTTPException raised
verify_api_key(h) ==
  IF ~startswith(h, "Bearer ")
  THEN [ok |-> FALSE, status_code |-> HTTP_401_UNAUTHORIZED,
        detail |-> "Invalid authorization header format"]
  ELSE LET token == replace(h, "Bearer ", "")
       IN  IF token # API_AUTH_TOKEN
           THEN [ok |-> FALSE, status_code |-> HTTP_401_UNAUTHORIZED,
                 detail |-> "Invalid API key"]
           ELSE [ok |-> TRUE, status_code |-> 0, detail |-> token]

----------------------------------------------------------------------------
(* Harness of verify_api_key: header values are concatenations of at most  *)
(* MaxChunks pieces.                                                       *)

Chunks == {"Bearer ", "Basic ", "right", "wrong", "token", "xyz", "Bear", "er "}

RECURSIVE Concats(_)
Concats(n) ==
  IF n = 0 THEN {""}
  ELSE LET shorter == Concats(n - 1)
       IN  shorter \cup {c \o s : c \in Chunks, s \in shorter}

HeaderValues == Concats(MaxChunks)
Tokens == {"righttoken", "token", "Bearer token"}

InitAuth ==
  /\ header \in HeaderValues
  /\ API_AUTH_TOKEN \in Tokens
  /\ verdict = <<>>
  /\ data = Null /\ cleaned = <<>> /\ recleaned = <<>>
  /\ selro_client = [key |-> "key", secret |-> "secret", base_url |-> "https://api.selro.com/8/orders"]
  /\ caller = NoRequests /\ authorization = NoRequests /\ pc = NoRequests
  /\ max_pages = NoRequests /\ page = NoRequests /\ all_orders = NoRequests
  /\ has_more_orders = NoRequests /\ trace = NoRequests
  /\ result = NoRequests /\ response = NoRequests

Verify ==
  /\ verdict = <<>>
  /\ verdict' = <<verify_api_key(header)>>
  /\ UNCHANGED <<header, reqVars, cleanVars>>

NextAuth == Verify

SpecAuth == InitAuth /\ [][NextAuth]_vars

\* C2: verify_api_key accepts a header value exactly when it is "Bearer "
\* followed by the configured token; every other value is rejected.
C2_AcceptsIffExact ==
  verdict # <<>> => (verdict[1].ok <=> header = "Bearer " \o API_AUTH_TOKEN)

----------------------------------------------------------------------------
(* The upstream API.  A reply to one GET is described by                   *)
(*   kind  "error"      requests.get or raise_for_status raised            *)
(*         "falsy"      the body is {}                                     *)
(*         "no_orders"  the body has no "orders" field                     *)
(*         "page"       the body is {"orders": [size records]}             *)
(*   holes TRUE when some records of the page are null or hold only nulls  *)
(*   text  the text of the RequestException                                *)

page_size == 100
default_max_pages == 100
HTTP_500_INTERNAL_SERVER_ERROR == 500
HTTP_200_OK == 200
HTTP_422_UNPROCESSABLE_ENTITY == 422

Reply(kind, size, holes, text) == [kind |-> kind, size |-> size, holes |-> holes, text |-> text]

\* record i of page p in the reply to request r; ids are unique
OrderId(r, p, i) == (r * 1000 + p) * 1000 + i
OrderRecord(r, p, i, holes) ==
  IF holes /\ i = 1 THEN Null
  ELSE IF holes /\ i = 2 THEN Map([note |-> Null, items |-> List(<<EmptyMap>>)])
  ELSE Map([id |-> Scalar(OrderId(r, p, i)), note |-> Null])

\* response.json() of a reply that did not raise
ResponseJson(r, p, d) ==
  IF d.kind = "falsy" THEN EmptyMap
  ELSE IF d.kind = "no_orders" THEN Map([message |-> Scalar(0)])
  ELSE Map([orders |-> List([i \in 1..d.size |-> OrderRecord(r, p, i, d.holes)])])

ErrorReplies ==
  {Reply("error", 0, FALSE, "ConnectionError: connection refused"),
   Reply("error", 0, FALSE, "HTTPError: 503 Server Error")}
ShortSizes == {0, 1, 37, page_size - 1}
\* every reply the model lets the upstream give for page p
Replies(p) ==
  LET holes == IF p <= HolePages THEN BOOLEAN ELSE {FALSE}
  IN  ErrorReplies
      \cup {Reply("falsy", 0, FALSE, ""), Reply("no_orders", 0, FALSE, "")}
      \cup UNION {{Reply("page", n, h, "") : h \in {x \in holes : x => n >= 2}} :
                     n \in ShortSizes \cup {k \in {page_size} : p <= MaxFullPages}}
\* the replies of the concurrent specification
LeanReplies(p) ==
  {Reply("error", 0, FALSE, "ConnectionError: connection refused"),
   Reply("page", 0, FALSE, ""), Reply("page", 2, FALSE, ""), Reply("page", 3, TRUE, ""),
   Reply("page", page_size, FALSE, "")}

----------------------------------------------------------------------------
(* SelroClient.fetch_all_orders, main.py:97-139 *)

GetEvent(p, d) == [op |-> "get", page |-> p, reply |-> d]
SleepEvent(p) == [op |-> "sleep", page |-> p, reply |-> Reply("none", 0, FALSE, "")]

\* A plausible slip: the bound is tested with < instead of <=.
LoopConditionOffByOne(has_more, p, maxp) == has_more /\ p < maxp

\* while has_more_orders and page <= max_pages
LoopCondition(has_more, p, maxp) == has_more /\ p <= maxp

\* if data and "orders" in data and len(data["orders"]) > 0
HasOrders(d) ==
  /\ ~IsEmptyDict(d)
  /\ "orders" \in DOMAIN d.m
  /\ Len(d.m["orders"].items) > 0

\* A plausible slip: the new page is put in front of the accumulated records.
ExtendInFront(all, orders) == orders \o all

\* all_orders.extend(orders)
Extend(all, orders) == all \o orders

\* A plausible slip: the page counter is kept on the shared client, so the
\* increment advances the counter every request reads.
NextPageShared(pages, r) == [q \in DOMAIN pages |-> pages[q] + 1]

\* page += 1, on the request's own local
NextPage(pages, r) == [pages EXCEPT ![r] = @ + 1]

\* str() of a starlette HTTPException: "<status_code>: <detail>"
StrHTTPException(e) == ToString(e.status_code) \o ": " \o e.detail

\* A plausible slip: the error is swallowed and what was accumulated is returned.
ReturnPartialOnError(all, text) ==
  [raised |-> FALSE, status_code |-> 0, detail |-> "",
   value |-> Map([orders |-> clean_json(List(all)), message |-> Null, order |-> Null])]

\* raise HTTPException(status_code=500, detail=f"Error communicating with Selro API: {str(e)}")
RaiseUpstreamError(all, text) ==
  [raised |-> TRUE, status_code |-> HTTP_500_INTERNAL_SERVER_ERROR,
   detail |-> "Error communicating with Selro API: " \o text, value |-> Null]

\* return {"orders": clean_json(all_orders), "message": None, "order": None}
ReturnOrders(all) ==
  [raised |-> FALSE, status_code |-> 0, detail |-> "",
   value |-> Map([orders |-> clean_json(List(all)), message |-> Null, order |-> Null])]

NotReturned == [raised |-> FALSE, status_code |-> 0, detail |-> "", value |-> Null]
NoResponse == [status_code |-> 0, detail |-> "", content |-> Null]

\* get_unshipped_orders, main.py:152-163, once fetch_all_orders has ended with res
EndpointResponse(res) ==
  IF res.raised
  THEN [status_code |-> HTTP_500_INTERNAL_SERVER_ERROR,
        detail |-> "An error occurred: " \o StrHTTPException(res), content |-> Null]
  ELSE [status_code |-> HTTP_200_OK, detail |-> "", content |-> clean_json(res.value)]

\* the end of fetch_all_orders for request r, and of the handler that called it
Finish(r, res) ==
  /\ pc' = [pc EXCEPT ![r] = "done"]
  /\ result' = [result EXCEPT ![r] = res]
  /\ response' = [response EXCEPT ![r] =
                    IF caller[r] = "endpoint" THEN EndpointResponse(res) ELSE NoResponse]

\* the loop test, then either the next iteration or the return
LoopOrReturn(r, has_more, pages, all) ==
  IF LoopCondition(has_more, pages[r], max_pages[r])
  THEN /\ pc' = [pc EXCEPT ![r] = "fetch"]
       /\ UNCHANGED <<result, response>>
  ELSE Finish(r, ReturnOrders(all))

\* A request arrives (or fetch_all_orders is called directly): the header
\* check of the framework, verify_api_key, and the start of fetch_all_orders.
Request(r) ==
  /\ pc[r] = "new"
  /\ UNCHANGED <<API_AUTH_TOKEN, selro_client, caller, authorization, max_pages, trace,
                 cleanVars, authVars>>
  /\ IF caller[r] = "endpoint" /\ authorization[r] = <<>>
     THEN \* Header(...): a required header that is missing is a validation error
          /\ pc' = [pc EXCEPT ![r] = "done"]
          /\ response' = [response EXCEPT ![r] =
                [status_code |-> HTTP_422_UNPROCESSABLE_ENTITY,
                 detail |-> "Field required", content |-> Null]]
          /\ UNCHANGED <<page, all_orders, has_more_orders, result>>
     ELSE IF caller[r] = "endpoint" /\ ~verify_api_key(authorization[r][1]).ok
     THEN /\ pc' = [pc EXCEPT ![r] = "done"]
          /\ response' = [response EXCEPT ![r] =
                [status_code |-> verify_api_key(authorization[r][1]).status_code,
                 detail |-> verify_api_key(authorization[r][1]).detail, content |-> Null]]
          /\ UNCHANGED <<page, all_orders, has_more_orders, result>>
     ELSE /\ page' = [page EXCEPT ![r] = 1]
          /\ all_orders' = [all_orders EXCEPT ![r] = <<>>]
          /\ has_more_orders' = [has_more_orders EXCEPT ![r] = TRUE]
          /\ LoopOrReturn(r, TRUE, page', <<>>)

\* One iteration of the loop: the GET of the current page, what the reply
\* does to the locals, the delay, and the loop test that follows.
FetchPage(r, replies) ==
  /\ pc[r] = "fetch"
  /\ UNCHANGED <<API_AUTH_TOKEN, selro_client, caller, authorization, max_pages,
                 cleanVars, authVars>>
  /\ \E d \in replies :
       IF d.kind = "error"
       THEN /\ trace' = [trace EXCEPT ![r] = Append(@, GetEvent(page[r], d))]
            /\ Finish(r, RaiseUpstreamError(all_orders[r], d.text))
            /\ UNCHANGED <<page, all_orders, has_more_orders>>
       ELSE LET json == ResponseJson(r, page[r], d)
            IN  IF HasOrders(json)
                THEN LET orders == json.m["orders"].items
                         all == Extend(all_orders[r], orders)
                     IN  /\ all_orders' = [all_orders EXCEPT ![r] = all]
                         /\ IF Len(orders) < page_size
                            THEN /\ has_more_orders' = [has_more_orders EXCEPT ![r] = FALSE]
                                 /\ page' = page
                                 /\ trace' = [trace EXCEPT ![r] = Append(@, GetEvent(page[r], d))]
                            ELSE /\ page' = NextPage(page, r)
                                 /\ has_more_orders' = has_more_orders
                                 \* time.sleep(1)
                                 /\ trace' = [trace EXCEPT ![r] =
                                       @ \o <<GetEvent(page[r], d), SleepEvent(page[r])>>]
                         /\ LoopOrReturn(r, has_more_orders'[r], page', all)
                ELSE /\ has_more_orders' = [has_more_orders EXCEPT ![r] = FALSE]
                     /\ trace' = [trace EXCEPT ![r] = Append(@, GetEvent(page[r], d))]
                     /\ UNCHANGED <<page, all_orders>>
                     /\ LoopOrReturn(r, FALSE, page, all_orders[r])

----------------------------------------------------------------------------
(* One request at a time: an HTTP request to the endpoint, or a direct     *)
(* call of fetch_all_orders with a max_pages argument.                     *)

EndpointHeaders ==
  {<<>>, <<"">>, <<"Basic xyz">>, <<"Bearer">>, <<"Bearer wrongtoken">>,
   <<"bearer righttoken">>, <<"Bearer righttoken">>, <<"Bearer Bearer righttoken">>}

InitRequests(n) ==
  /\ selro_client = [key |-> "key", secret |-> "secret", base_url |-> "https://api.selro.com/8/orders"]
  /\ pc = [r \in 1..n |-> "new"]
  /\ page = [r \in 1..n |-> 0]
  /\ all_orders = [r \in 1..n |-> <<>>]
  /\ has_more_orders = [r \in 1..n |-> FALSE]
  /\ trace = [r \in 1..n |-> <<>>]
  /\ result = [r \in 1..n |-> NotReturned]
  /\ response = [r \in 1..n |-> NoResponse]
  /\ data = Null /\ cleaned = <<>> /\ recleaned = <<>>
  /\ header = "" /\ verdict = <<>>

Init ==
  /\ InitRequests(1)
  /\ API_AUTH_TOKEN = "righttoken"
  /\ caller \in [{1} -> {"endpoint", "direct"}]
  /\ authorization \in [{1} -> EndpointHeaders]
  /\ caller[1] = "direct" => authorization[1] = <<>>
  /\ max_pages \in [{1} -> 0..default_max_pages]
  /\ max_pages[1] = IF caller[1] = "endpoint" THEN default_max_pages ELSE max_pages[1]
  /\ caller[1] = "direct" => max_pages[1] <= MaxPagesArg

Next ==
  \E r \in DOMAIN pc :
    \/ Request(r)
    \/ FetchPage(r, Replies(page[r]))

Spec == Init /\ [][Next]_vars

----------------------------------------------------------------------------
(* Several requests in flight, each a run of fetch_all_orders on the       *)
(* shared selro_client, interleaved at every upstream call.                *)

InitConc ==
  /\ InitRequests(NumRequests)
  /\ API_AUTH_TOKEN = "righttoken"
  /\ caller = [r \in 1..NumRequests |-> "direct"]
  /\ authorization = [r \in 1..NumRequests |-> <<>>]
  /\ max_pages = [r \in 1..NumRequests |-> MaxPagesConc]

NextConc ==
  \E r \in DOMAIN pc :
    \/ Request(r)
    \/ FetchPage(r, LeanReplies(page[r]))

SpecConc == InitConc /\ [][NextConc]_vars

----------------------------------------------------------------------------
(* What the claims speak of *)

\* the upstream calls of request r, in order
Gets(r) == SelectSeq(trace[r], LAMBDA e : e.op = "get")

\* a page of page_size records or more
IsFull(d) == d.kind = "page" /\ d.size >= page_size

\* fetch_all_orders of request r has returned without error
Returned(r) == pc[r] = "done" /\ ~result[r].raised /\ result[r].value # Null

\* the records of the pages the calls of t received, in page order and then
\* in within-page order
RECURSIVE FetchedRecords(_, _)
FetchedRecords(r, t) ==
  IF t = <<>> THEN <<>>
  ELSE LET e == Head(t)
       IN  (IF e.op = "get" /\ e.reply.kind = "page"
            THEN ResponseJson(r, e.page, e.reply).m["orders"].items
            ELSE <<>>) \o FetchedRecords(r, Tail(t))

\* sub occurs in s
Contains(s, sub) ==
  \E i \in 1..(Len(s) - Len(sub) + 1) : SubSeq(s, i, i + Len(sub) - 1) = sub

\* the header of an endpoint request does not authenticate it
NotAuthenticated(a) ==
  \/ a = <<>>
  \/ ~startswith(a[1], "Bearer ")
  \/ SubSeq(a[1], Len("Bearer ") + 1, Len(a[1])) # API_AUTH_TOKEN

\* C1: an authenticated request whose upstream calls all succeed is answered
\* 200 with a body holding "orders", the cleaned records, also when there are
\* none: a first page {"orders": []} gives the body {"orders": []}.
C1_BodyHoldsOrders ==
  \A r \in DOMAIN pc :
    (caller[r] = "endpoint" /\ Returned(r)) =>
      /\ response[r].status_code = HTTP_200_OK
      /\ response[r].content.t = "map"
      /\ "orders" \in DOMAIN response[r].content.m
      /\ response[r].content.m["orders"] = clean_json(List(all_orders[r]))
      /\ (Gets(r)[1].reply = Reply("page", 0, FALSE, "")
            => response[r].content = Map([orders |-> EmptyList]))

\* C3: a run with max_pages >= 1 that meets no upstream failure calls pages
\* 1, 2, ..., k, each once and in this order, k being the smaller of max_pages
\* and the index of the first page that is not full; it ends without error.
C3_PagesInOrderUntilShortOrMax ==
  \A r \in DOMAIN pc :
    LET g == Gets(r)
        k == Len(g)
    IN  /\ \A i \in 1..k : g[i].page = i
        /\ \A i \in 1..(k - 1) : IsFull(g[i].reply)
        /\ k <= max_pages[r]
        /\ (pc[r] = "done" /\ max_pages[r] >= 1 /\ result[r] # NotReturned
             /\ \A i \in 1..k : g[i].reply.kind # "error") =>
              /\ k >= 1
              /\ k = max_pages[r] \/ ~IsFull(g[k].reply)
              /\ Returned(r)

\* a run stopped by max_pages after two full pages
C3_Witness ==
  \E r \in DOMAIN pc :
    /\ Returned(r) /\ max_pages[r] = 2
    /\ Len(Gets(r)) = 2 /\ IsFull(Gets(r)[2].reply)

\* C4 as stated: the returned "orders" has one entry per record of the
\* fetched pages, in page order and then in within-page order, so its length is
\* the sum of the sizes of the fetched pages.
C4_OneEntryPerRecord ==
  \A r \in DOMAIN pc :
    Returned(r) =>
      LET fetched == FetchedRecords(r, trace[r])
          orders == result[r].value.m["orders"].items
      IN  /\ Len(orders) = Len(fetched)
          /\ \A i \in 1..Len(orders) :
                fetched[i].t = "map" /\ "id" \in DOMAIN fetched[i].m
                /\ orders[i].m["id"] = fetched[i].m["id"]

\* C4 as amended: the returned "orders" has one entry per fetched record
\* that is not null and not made only of null or empty values, in page order
\* and then in within-page order; its length is the sum of the sizes of the
\* fetched pages less the number of such dropped records.
C4_OneEntryPerKeptRecord ==
  \A r \in DOMAIN pc :
    Returned(r) =>
      LET fetched == FetchedRecords(r, trace[r])
          kept == SelectSeq(fetched, LAMBDA x : ~Hollow(x))
          orders == result[r].value.m["orders"].items
      IN  /\ Len(orders) = Len(fetched) - Cardinality({i \in 1..Len(fetched) : Hollow(fetched[i])})
          /\ Len(orders) = Len(kept)
          /\ \A i \in 1..Len(orders) : orders[i].m["id"] = kept[i].m["id"]

\* pages of sizes 100, 100, 37, the first with two records that are dropped
C4_Witness ==
  \E r \in DOMAIN pc :
    /\ Returned(r)
    /\ Len(Gets(r)) = 3
    /\ Gets(r)[1].reply = Reply("page", page_size, TRUE, "")
    /\ Gets(r)[2].reply = Reply("page", page_size, FALSE, "")
    /\ Gets(r)[3].reply = Reply("page", 37, FALSE, "")
    /\ Len(result[r].value.m["orders"].items) = 235

\* C5: when an upstream call fails, it is the last event of the run, the run
\* fails with status 500 and a detail holding the upstream error text, and no
\* accumulated record is returned.
C5_FailureEndsRun ==
  \A r \in DOMAIN pc :
    \A n \in 1..Len(trace[r]) :
      trace[r][n].reply.kind = "error" =>
        /\ n = Len(trace[r])
        /\ pc[r] = "done"
        /\ result[r].raised
        /\ result[r].status_code = HTTP_500_INTERNAL_SERVER_ERROR
        /\ Contains(result[r].detail, trace[r][n].reply.text)
        /\ result[r].value = Null
        /\ caller[r] = "endpoint" =>
             /\ response[r].status_code = HTTP_500_INTERNAL_SERVER_ERROR
             /\ Contains(response[r].detail, trace[r][n].reply.text)
             /\ response[r].content = Null

\* an endpoint request whose second upstream call failed
C5_Witness ==
  \E r \in DOMAIN pc :
    /\ caller[r] = "endpoint"
    /\ Len(Gets(r)) = 2
    /\ Gets(r)[2].reply.kind = "error"
    /\ Len(all_orders[r]) = page_size
    /\ response[r].status_code = HTTP_500_INTERNAL_SERVER_ERROR

\* C6: a request that is not authenticated (no Authorization header, no
\* "Bearer " prefix, or another token) is answered 401 and causes no upstream
\* call.
C6_Unauthenticated401 ==
  \A r \in DOMAIN pc :
    (caller[r] = "endpoint" /\ NotAuthenticated(authorization[r])) =>
      /\ trace[r] = <<>>
      /\ pc[r] = "done" => response[r].status_code = HTTP_401_UNAUTHORIZED

OwnRecordsReturned(r) ==
  /\ \A i \in 1..Len(Gets(r)) : Gets(r)[i].page = i
  /\ Returned(r) =>
       LET kept == SelectSeq(FetchedRecords(r, trace[r]), LAMBDA x : ~Hollow(x))
           orders == result[r].value.m["orders"].items
       IN  /\ Len(orders) = Len(kept)
           /\ \A i \in 1..Len(orders) : orders[i].m["id"] = kept[i].m["id"]

====
